---- MODULE Spec2Model ----
(***************************************************************************)
(* A model of the configuration composable useConfigHandler               *)
(* (packages/hoppscotch-sh-admin/src/composables/useConfigHandler.ts).    *)
(*                                                                         *)
(* Strings.  A key name, a provider identifier and a message key are only *)
(* ever compared for equality; they are TLA+ strings.  A configuration    *)
(* VALUE is also trimmed (isFieldEmpty), so a value is a sequence of      *)
(* one-character strings: '' is << >>, 'abc' is <<"a","b","c">>.          *)
(*                                                                         *)
(* Objects.  currentConfigs and workingConfigs are refs to objects; an    *)
(* object lives in the heap `objects` at an address (its index) and a ref *)
(* holds the address, NullRef while the ref is undefined.  An in-place    *)
(* edit changes the object at an address, so two refs to one address see  *)
(* the same edit.                                                          *)
(***************************************************************************)
EXTENDS Integers, Sequences, FiniteSets, TLC

VARIABLES
    pc,                            \* position of the onMounted handler
    fetchingInfraConfigs,          \* useClientHandler(InfraConfigsDocument).fetching
    infraConfigsError,             \*   .error
    infraConfigs,                  \*   .dataAsList
    fetchingAllowedAuthProviders,  \* useClientHandler(AllowedAuthProvidersDocument).fetching
    allowedAuthProvidersError,     \*   .error
    allowedAuthProviders,          \*   .dataAsList
    objects,                       \* the heap of Config objects
    currentConfigs,                \* ref: address of the object, or NullRef
    workingConfigs,                \* ref: address of the object, or NullRef
    updatedConfigs,                \* the argument of useConfigHandler: a Config or Undefined
    returned,                      \* what the last synchronous read or call returned
    calls,                         \* the executeMutation calls made so far
    toasts,                        \* message keys given to toast.error, in order
    log,                           \* history: reads started/completed, refs assigned
    nEdits                         \* history: number of edits made

vars == << pc, fetchingInfraConfigs, infraConfigsError, infraConfigs,
           fetchingAllowedAuthProviders, allowedAuthProvidersError,
           allowedAuthProviders, objects, currentConfigs, workingConfigs,
           updatedConfigs, returned, calls, toasts, log, nEdits >>

-----------------------------------------------------------------------------
(* Bounds of the exploration.                                              *)

\* keys a fetched server list may lack
MaxMissing == 1
\* length of the short, arbitrary fetched lists (duplicates, any order)
MaxListLen == 2
\* field edits the caller makes to the Config it passed in
MaxEdits == 1
\* user events (edits of the working copy, mutation calls) of an editing session
MaxEvents == 2

-----------------------------------------------------------------------------
(* Values.                                                                 *)

EmptyStr == << >>
S_abc    == << "a", "b", "c" >>
S_true   == << "t", "r", "u", "e" >>
S_TRUE   == << "T", "R", "U", "E" >>
S_True   == << "T", "r", "u", "e" >>
S_false  == << "f", "a", "l", "s", "e" >>
S_1      == << "1" >>
S_blank  == << " ", "\t" >>
S_padded == << " ", "x", " " >>

\* undefined, where a Config is expected
Undefined == [undefined |-> TRUE]
\* a ref that holds undefined
NullRef == 0
\* Array.prototype.find found nothing
NotFound == [found |-> FALSE]

\* the characters String.prototype.trim strips (the ones the model's values use)
WhiteSpace == { " ", "\t", "\n" }

\* configNames of the infra-config read, in request order
ConfigNames ==
    << "GOOGLE_CLIENT_ID", "GOOGLE_CLIENT_SECRET", "GOOGLE_CALLBACK_URL",
       "GOOGLE_SCOPE",
       "MICROSOFT_CLIENT_ID", "MICROSOFT_CLIENT_SECRET",
       "MICROSOFT_CALLBACK_URL", "MICROSOFT_SCOPE", "MICROSOFT_TENANT",
       "GITHUB_CLIENT_ID", "GITHUB_CLIENT_SECRET", "GITHUB_CALLBACK_URL",
       "GITHUB_SCOPE",
       "OIDC_CLIENT_ID", "OIDC_CLIENT_SECRET", "OIDC_CALLBACK_URL",
       "OIDC_SCOPE", "OIDC_ISSUER", "OIDC_AUTH_URL", "OIDC_TOKEN_URL",
       "OIDC_USERINFO_URL",
       "MAILER_SMTP_URL", "MAILER_ADDRESS_FROM",
       "ALLOW_ANALYTICS_COLLECTION" >>

\* the provider identifiers the allowed-auth-providers read may return
ProviderNames == << "GOOGLE", "MICROSOFT", "GITHUB", "OIDC", "EMAIL" >>

-----------------------------------------------------------------------------
(* Array helpers.                                                          *)

\* Array.prototype.find with the predicate x.name === name
FindByName(list, name) ==
    LET hits == { i \in 1..Len(list) : list[i].name = name }
    IN  IF hits = {} THEN NotFound
        ELSE LET first == CHOOSE i \in hits : \A j \in hits : i <= j
             IN  [found |-> TRUE, value |-> list[first].value]

\* Array.prototype.includes
Includes(list, x) == \E i \in 1..Len(list) : list[i] = x

\* variant: nothing is filtered out
FilterOutNames_Keep(list, names) == list

\* Array.prototype.filter with the predicate item.name !== n, for every n of names
FilterOutNames(list, names) == SelectSeq(list, LAMBDA item : item.name \notin names)

-----------------------------------------------------------------------------
(* The view-model builder (onMounted, after the two reads).                *)

\* variant: the last entry of that name is taken, not the first
GetFieldValue_Last(list, name) ==
    LET hits == { i \in 1..Len(list) : list[i].name = name }
    IN  IF hits = {} THEN EmptyStr
        ELSE list[CHOOSE i \in hits : \A j \in hits : j <= i].value

\* infraConfigs.value.find((x) => x.name === name)?.value ?? ''
GetFieldValue(list, name) ==
    LET hit == FindByName(list, name)
    IN  IF hit.found THEN hit.value ELSE EmptyStr

\* variant: the value is compared regardless of case
AnalyticsEnabled_AnyCase(list) ==
    \E i \in 1..Len(list) :
        /\ list[i].name = "ALLOW_ANALYTICS_COLLECTION"
        /\ list[i].value \in { S_true, S_TRUE, S_True }

\* !!infraConfigs.value.find((x) => x.name === 'ALLOW_ANALYTICS_COLLECTION' && x.value === 'true')
AnalyticsEnabled(list) ==
    \E i \in 1..Len(list) :
        list[i].name = "ALLOW_ANALYTICS_COLLECTION" /\ list[i].value = S_true

\* the object literal assigned to currentConfigs.value
BuildConfig(list, providerList) ==
    [ providers |->
        [ google |->
            [ name |-> "google",
              enabled |-> Includes(providerList, "GOOGLE"),
              fields |->
                [ client_id |-> GetFieldValue(list, "GOOGLE_CLIENT_ID"),
                  client_secret |-> GetFieldValue(list, "GOOGLE_CLIENT_SECRET"),
                  callback_url |-> GetFieldValue(list, "GOOGLE_CALLBACK_URL"),
                  scope |-> GetFieldValue(list, "GOOGLE_SCOPE") ] ],
          github |->
            [ name |-> "github",
              enabled |-> Includes(providerList, "GITHUB"),
              fields |->
                [ client_id |-> GetFieldValue(list, "GITHUB_CLIENT_ID"),
                  client_secret |-> GetFieldValue(list, "GITHUB_CLIENT_SECRET"),
                  callback_url |-> GetFieldValue(list, "GITHUB_CALLBACK_URL"),
                  scope |-> GetFieldValue(list, "GITHUB_SCOPE") ] ],
          microsoft |->
            [ name |-> "microsoft",
              enabled |-> Includes(providerList, "MICROSOFT"),
              fields |->
                [ client_id |-> GetFieldValue(list, "MICROSOFT_CLIENT_ID"),
                  client_secret |-> GetFieldValue(list, "MICROSOFT_CLIENT_SECRET"),
                  callback_url |-> GetFieldValue(list, "MICROSOFT_CALLBACK_URL"),
                  scope |-> GetFieldValue(list, "MICROSOFT_SCOPE"),
                  tenant |-> GetFieldValue(list, "MICROSOFT_TENANT") ] ],
          oidc |->
            [ name |-> "oidc",
              enabled |-> Includes(providerList, "OIDC"),
              fields |->
                [ client_id |-> GetFieldValue(list, "OIDC_CLIENT_ID"),
                  client_secret |-> GetFieldValue(list, "OIDC_CLIENT_SECRET"),
                  callback_url |-> GetFieldValue(list, "OIDC_CALLBACK_URL"),
                  scope |-> GetFieldValue(list, "OIDC_SCOPE"),
                  issuer |-> GetFieldValue(list, "OIDC_ISSUER"),
                  auth_url |-> GetFieldValue(list, "OIDC_AUTH_URL"),
                  token_url |-> GetFieldValue(list, "OIDC_TOKEN_URL"),
                  userinfo_url |-> GetFieldValue(list, "OIDC_USERINFO_URL") ] ] ],
      mailConfigs |->
        [ name |-> "email",
          enabled |-> Includes(providerList, "EMAIL"),
          fields |->
            [ mailer_smtp_url |-> GetFieldValue(list, "MAILER_SMTP_URL"),
              mailer_from_address |-> GetFieldValue(list, "MAILER_ADDRESS_FROM") ] ],
      dataSharingConfigs |->
        [ name |-> "data_sharing",
          enabled |-> AnalyticsEnabled(list) ] ]

\* variant: no copy is made, the same object is handed back
CloneDeep_Alias(heap, ref) == [ objects |-> heap, ref |-> ref ]

\* lodash cloneDeep of the object at address ref: a new object with the same
\* contents, at a new address
CloneDeep(heap, ref) ==
    [ objects |-> Append(heap, heap[ref]), ref |-> Len(heap) + 1 ]

-----------------------------------------------------------------------------
(* The reverse transformers (the computed values) and the validator.       *)

\* config.providers.<s>, or config.mailConfigs
Section(config, s) ==
    IF s = "mailConfigs" THEN config.mailConfigs ELSE config.providers[s]

\* variant: the enabled flag is not consulted, a section is always sent
OptEnabled_Ignored(uc, s) == uc # Undefined

\* updatedConfigs?.<section>.enabled, as a condition: undefined is falsy
OptEnabled(uc, s) ==
    IF uc = Undefined THEN FALSE ELSE Section(uc, s).enabled

\* variant: the key is sent with an empty value
Entry_Empty(n, v) == [ name |-> n, value |-> EmptyStr ]

\* one { name, value } element; `field ?? ''` is the field, a string by type
Entry(n, v) == [ name |-> n, value |-> v ]

\* the computed updatedInfraConfigs
UpdatedInfraConfigs(uc) ==
    LET seed == << Entry("", EmptyStr) >>
        google ==
            IF OptEnabled(uc, "google")
            THEN seed \o
                 << Entry("GOOGLE_CLIENT_ID", uc.providers.google.fields.client_id),
                    Entry("GOOGLE_CLIENT_SECRET", uc.providers.google.fields.client_secret),
                    Entry("GOOGLE_CALLBACK_URL", uc.providers.google.fields.callback_url),
                    Entry("GOOGLE_SCOPE", uc.providers.google.fields.scope) >>
            ELSE FilterOutNames(seed,
                    { "GOOGLE_CLIENT_ID", "GOOGLE_CLIENT_SECRET",
                      "GOOGLE_CALLBACK_URL", "GOOGLE_SCOPE" })
        microsoft ==
            IF OptEnabled(uc, "microsoft")
            THEN google \o
                 << Entry("MICROSOFT_CLIENT_ID", uc.providers.microsoft.fields.client_id),
                    Entry("MICROSOFT_CLIENT_SECRET", uc.providers.microsoft.fields.client_secret),
                    Entry("MICROSOFT_CALLBACK_URL", uc.providers.microsoft.fields.callback_url),
                    Entry("MICROSOFT_SCOPE", uc.providers.microsoft.fields.scope),
                    Entry("MICROSOFT_TENANT", uc.providers.microsoft.fields.tenant) >>
            ELSE FilterOutNames(google,
                    { "MICROSOFT_CLIENT_ID", "MICROSOFT_CLIENT_SECRET",
                      "MICROSOFT_CALLBACK_URL", "MICROSOFT_SCOPE",
                      "MICROSOFT_TENANT" })
        github ==
            IF OptEnabled(uc, "github")
            THEN microsoft \o
                 << Entry("GITHUB_CLIENT_ID", uc.providers.github.fields.client_id),
                    Entry("GITHUB_CLIENT_SECRET", uc.providers.github.fields.client_secret),
                    Entry("GITHUB_CALLBACK_URL", uc.providers.github.fields.callback_url),
                    Entry("GITHUB_SCOPE", uc.providers.github.fields.scope) >>
            ELSE FilterOutNames(microsoft,
                    { "GITHUB_CLIENT_ID", "GITHUB_CLIENT_SECRET",
                      "GITHUB_CALLBACK_URL", "GITHUB_SCOPE" })
        oidc ==
            IF OptEnabled(uc, "oidc")
            THEN github \o
                 << Entry("OIDC_CLIENT_ID", uc.providers.oidc.fields.client_id),
                    Entry("OIDC_CLIENT_SECRET", uc.providers.oidc.fields.client_secret),
                    Entry("OIDC_CALLBACK_URL", uc.providers.oidc.fields.callback_url),
                    Entry("OIDC_SCOPE", uc.providers.oidc.fields.scope),
                    Entry("OIDC_ISSUER", uc.providers.oidc.fields.issuer),
                    Entry("OIDC_AUTH_URL", uc.providers.oidc.fields.auth_url),
                    Entry("OIDC_TOKEN_URL", uc.providers.oidc.fields.token_url),
                    Entry("OIDC_USERINFO_URL", uc.providers.oidc.fields.userinfo_url) >>
            ELSE FilterOutNames(github,
                    { "OIDC_CLIENT_ID", "OIDC_CLIENT_SECRET", "OIDC_CALLBACK_URL",
                      "OIDC_SCOPE", "OIDC_ISSUER", "OIDC_AUTH_URL",
                      "OIDC_TOKEN_URL", "OIDC_USERINFO_URL" })
        mail ==
            IF OptEnabled(uc, "mailConfigs")
            THEN oidc \o
                 << Entry("MAILER_SMTP_URL", uc.mailConfigs.fields.mailer_smtp_url),
                    Entry("MAILER_ADDRESS_FROM", uc.mailConfigs.fields.mailer_from_address) >>
            ELSE FilterOutNames(oidc, { "MAILER_SMTP_URL", "MAILER_ADDRESS_FROM" })
    IN  FilterOutNames(mail, { "" })

\* String.prototype.trim: strip the white space at both ends
RECURSIVE TrimStart(_)
TrimStart(s) ==
    IF s # << >> /\ Head(s) \in WhiteSpace THEN TrimStart(Tail(s)) ELSE s

RECURSIVE TrimEnd(_)
TrimEnd(s) ==
    IF s # << >> /\ s[Len(s)] \in WhiteSpace
    THEN TrimEnd(SubSeq(s, 1, Len(s) - 1))
    ELSE s

Trim(s) == TrimEnd(TrimStart(s))

\* variant: the field is compared without being trimmed
IsFieldEmpty_NoTrim(field) == field = EmptyStr

\* isFieldEmpty
IsFieldEmpty(field) == Trim(field) = EmptyStr

\* AreAnyConfigFieldsEmpty
AreAnyConfigFieldsEmpty(config) ==
    LET sections == << config.providers.github, config.providers.google,
                       config.providers.microsoft, config.mailConfigs >>
    IN  \E i \in 1..Len(sections) :
            /\ sections[i].enabled
            /\ \E k \in DOMAIN sections[i].fields :
                   IsFieldEmpty(sections[i].fields[k])

\* variant: the two branches of the conditional are swapped
StatusOf_Swapped(uc, s) == IF OptEnabled(uc, s) THEN "DISABLE" ELSE "ENABLE"

\* updatedConfigs?.<section>.enabled ? 'ENABLE' : 'DISABLE'
StatusOf(uc, s) == IF OptEnabled(uc, s) THEN "ENABLE" ELSE "DISABLE"

\* the computed updatedAllowedAuthProviders
UpdatedAllowedAuthProviders(uc) ==
    << [ provider |-> "GOOGLE", status |-> StatusOf(uc, "google") ],
       [ provider |-> "MICROSOFT", status |-> StatusOf(uc, "microsoft") ],
       [ provider |-> "GITHUB", status |-> StatusOf(uc, "github") ],
       [ provider |-> "EMAIL", status |-> StatusOf(uc, "mailConfigs") ] >>

-----------------------------------------------------------------------------
(* What the two reads may return.                                          *)

\* a { name, value } pair of a response
Item(n, v) == [ name |-> n, value |-> v ]

\* a response without the keys of d
Without(list, d) == SelectSeq(list, LAMBDA e : e.name \notin d)

Letters == << "a", "b", "c", "d", "e", "f", "g", "h", "i", "j", "k", "l",
              "m", "n", "o", "p", "q", "r", "s", "t", "u", "v", "w", "x" >>

\* a complete response: every requested key once, in request order, each
\* with a value of its own, and analytics collection allowed
ServerList ==
    [ i \in 1..Len(ConfigNames) |->
        Item(ConfigNames[i],
              IF ConfigNames[i] = "ALLOW_ANALYTICS_COLLECTION"
              THEN S_true
              ELSE << "v", Letters[i] >>) ]

Reverse(list) == [ i \in 1..Len(list) |-> list[Len(list) + 1 - i] ]

NameSet == { ConfigNames[i] : i \in 1..Len(ConfigNames) }

\* the sets of at most k key names
RECURSIVE NameSetsUpTo(_)
NameSetsUpTo(k) ==
    IF k = 0 THEN { {} }
    ELSE LET smaller == NameSetsUpTo(k - 1)
         IN  smaller \cup { d \cup { n } : d \in smaller, n \in NameSet }

\* the entries of the short lists
ShortEntries ==
    { Item(n, v) : n \in { "GOOGLE_CLIENT_ID", "MAILER_ADDRESS_FROM" },
                    v \in { S_abc, EmptyStr } }
    \cup { Item("ALLOW_ANALYTICS_COLLECTION", v) :
             v \in { S_true, S_TRUE, S_True, S_1, S_false } }

RECURSIVE SeqsUpTo(_, _)
SeqsUpTo(S, k) ==
    IF k = 0 THEN { << >> }
    ELSE LET shorter == SeqsUpTo(S, k - 1)
         IN  shorter \cup { Append(q, e) : q \in shorter, e \in S }

\* the lists the infra-config read returns: a complete response (in request
\* order or reversed) lacking at most MaxMissing keys, or any list of at
\* most MaxListLen of the short entries (repeated names, any order)
FlatLists ==
    { Without(base, d) :
        base \in { ServerList, Reverse(ServerList) },
        d \in NameSetsUpTo(MaxMissing) }
    \cup SeqsUpTo(ShortEntries, MaxListLen)

\* the lists the allowed-auth-providers read returns: every set of providers
ProviderLists ==
    { SelectSeq(ProviderNames, LAMBDA p : p \in S) :
        S \in SUBSET { ProviderNames[i] : i \in 1..Len(ProviderNames) } }

\* the responses of an editing session
SessionLists == { << >>, ServerList }
SessionProviderLists == { << >>, << "GOOGLE", "EMAIL" >> }

\* fetchData of useClientHandler: the list is filled with the response, or
\* the error flag is raised and the list left as it was
FetchOutcomes(responses) ==
    { [ error |-> FALSE, list |-> l ] : l \in responses }
    \cup { [ error |-> TRUE, list |-> << >> ] }

-----------------------------------------------------------------------------
(* The state after useConfigHandler(updatedConfigs) has run.               *)

NoReturn == [ op |-> "none" ]

InitWith(arguments) ==
    /\ pc = "created"
    /\ fetchingInfraConfigs = FALSE
    /\ infraConfigsError = FALSE
    /\ infraConfigs = << >>
    /\ fetchingAllowedAuthProviders = FALSE
    /\ allowedAuthProvidersError = FALSE
    /\ allowedAuthProviders = << >>
    /\ objects = << >>
    /\ currentConfigs = NullRef
    /\ workingConfigs = NullRef
    /\ updatedConfigs \in arguments
    /\ returned = NoReturn
    /\ calls = << >>
    /\ toasts = << >>
    /\ log = << >>
    /\ nEdits = 0

-----------------------------------------------------------------------------
(* onMounted.                                                              *)

\* variant: both reads are started at once
OnMounted_Parallel ==
    /\ pc = "created"
    /\ pc' = "awaitInfraConfigs"
    /\ fetchingInfraConfigs' = TRUE
    /\ fetchingAllowedAuthProviders' = TRUE
    /\ log' = log \o << "fetchInfraConfigs:start",
                        "fetchAllowedAuthProviders:start" >>
    /\ returned' = NoReturn
    /\ UNCHANGED << infraConfigsError, infraConfigs,
                    allowedAuthProvidersError, allowedAuthProviders, objects,
                    currentConfigs, workingConfigs, updatedConfigs, calls,
                    toasts, nEdits >>

\* the handler starts: fetchInfraConfigs() is called and awaited
OnMounted ==
    /\ pc = "created"
    /\ pc' = "awaitInfraConfigs"
    /\ fetchingInfraConfigs' = TRUE
    /\ log' = Append(log, "fetchInfraConfigs:start")
    /\ returned' = NoReturn
    /\ UNCHANGED << infraConfigsError, infraConfigs,
                    fetchingAllowedAuthProviders, allowedAuthProvidersError,
                    allowedAuthProviders, objects, currentConfigs,
                    workingConfigs, updatedConfigs, calls, toasts, nEdits >>

\* the first read completes; the handler resumes, calls
\* fetchAllowedAuthProviders() and awaits it
InfraConfigsFetched(responses) ==
    /\ pc = "awaitInfraConfigs"
    /\ \E o \in FetchOutcomes(responses) :
          /\ infraConfigs' = infraConfigs \o o.list
          /\ infraConfigsError' = o.error
    /\ fetchingInfraConfigs' = FALSE
    /\ fetchingAllowedAuthProviders' = TRUE
    /\ pc' = "awaitAllowedAuthProviders"
    /\ log' = log \o << "fetchInfraConfigs:done",
                        "fetchAllowedAuthProviders:start" >>
    /\ returned' = NoReturn
    /\ UNCHANGED << allowedAuthProvidersError, allowedAuthProviders, objects,
                    currentConfigs, workingConfigs, updatedConfigs, calls,
                    toasts, nEdits >>

\* the second read completes; the handler resumes
AllowedAuthProvidersFetched(responses) ==
    /\ pc = "awaitAllowedAuthProviders"
    /\ \E o \in FetchOutcomes(responses) :
          /\ allowedAuthProviders' = allowedAuthProviders \o o.list
          /\ allowedAuthProvidersError' = o.error
    /\ fetchingAllowedAuthProviders' = FALSE
    /\ pc' = "build"
    /\ log' = Append(log, "fetchAllowedAuthProviders:done")
    /\ returned' = NoReturn
    /\ UNCHANGED << fetchingInfraConfigs, infraConfigsError, infraConfigs,
                    objects, currentConfigs, workingConfigs, updatedConfigs,
                    calls, toasts, nEdits >>

\* currentConfigs.value = { ... }
AssignCurrentConfigs ==
    /\ pc = "build"
    /\ objects' = Append(objects, BuildConfig(infraConfigs, allowedAuthProviders))
    /\ currentConfigs' = Len(objects) + 1
    /\ pc' = "clone"
    /\ log' = Append(log, "currentConfigs:assigned")
    /\ UNCHANGED << fetchingInfraConfigs, infraConfigsError, infraConfigs,
                    fetchingAllowedAuthProviders, allowedAuthProvidersError,
                    allowedAuthProviders, workingConfigs, updatedConfigs,
                    returned, calls, toasts, nEdits >>

\* workingConfigs.value = cloneDeep(currentConfigs.value); the handler ends
AssignWorkingConfigs ==
    /\ pc = "clone"
    /\ LET copy == CloneDeep(objects, currentConfigs)
       IN  /\ objects' = copy.objects
           /\ workingConfigs' = copy.ref
    /\ pc' = "mounted"
    /\ log' = Append(log, "workingConfigs:assigned")
    /\ UNCHANGED << fetchingInfraConfigs, infraConfigsError, infraConfigs,
                    fetchingAllowedAuthProviders, allowedAuthProvidersError,
                    allowedAuthProviders, currentConfigs, updatedConfigs,
                    returned, calls, toasts, nEdits >>

-----------------------------------------------------------------------------
(* The view-model builder on every response.                               *)

InitBuild == InitWith({ Undefined })

NextBuild ==
    \/ OnMounted
    \/ InfraConfigsFetched(FlatLists)
    \/ AllowedAuthProvidersFetched(ProviderLists)
    \/ AssignCurrentConfigs
    \/ AssignWorkingConfigs

SpecBuild == InitBuild /\ [][NextBuild]_vars

-----------------------------------------------------------------------------
(* In-place edits of a Config object (the forms bound to it).              *)

FieldSections == { "google", "github", "microsoft", "oidc", "mailConfigs" }

\* config.<section>.enabled = b
SetEnabled(config, s, b) ==
    IF s = "mailConfigs" THEN [ config EXCEPT !.mailConfigs.enabled = b ]
    ELSE IF s = "dataSharingConfigs"
         THEN [ config EXCEPT !.dataSharingConfigs.enabled = b ]
         ELSE [ config EXCEPT !.providers[s].enabled = b ]

EnabledOf(config, s) ==
    IF s = "dataSharingConfigs" THEN config.dataSharingConfigs.enabled
    ELSE Section(config, s).enabled

\* config.<section>.fields.<f> = v
SetField(config, s, f, v) ==
    IF s = "mailConfigs" THEN [ config EXCEPT !.mailConfigs.fields[f] = v ]
    ELSE [ config EXCEPT !.providers[s].fields[f] = v ]

\* what a form field is set to: nothing, white space only, a padded value
EditValues == { EmptyStr, S_blank, S_padded }

\* a toggle of the working copy flips a section's enabled flag
ToggleWorkingSection ==
    /\ pc = "mounted"
    /\ nEdits + Len(calls) < MaxEvents
    /\ \E s \in FieldSections \cup { "dataSharingConfigs" } :
          objects' = [ objects EXCEPT ![workingConfigs] =
                         SetEnabled(@, s, ~EnabledOf(@, s)) ]
    /\ nEdits' = nEdits + 1
    /\ returned' = NoReturn
    /\ UNCHANGED << pc, fetchingInfraConfigs, infraConfigsError, infraConfigs,
                    fetchingAllowedAuthProviders, allowedAuthProvidersError,
                    allowedAuthProviders, currentConfigs, workingConfigs,
                    updatedConfigs, calls, toasts, log >>

\* an input of the working copy sets a field
EditWorkingField(values) ==
    /\ pc = "mounted"
    /\ nEdits + Len(calls) < MaxEvents
    /\ \E s \in FieldSections :
          \E f \in DOMAIN Section(objects[workingConfigs], s).fields :
             \E v \in values :
                /\ Section(objects[workingConfigs], s).fields[f] # v
                /\ objects' = [ objects EXCEPT ![workingConfigs] =
                                  SetField(@, s, f, v) ]
    /\ nEdits' = nEdits + 1
    /\ returned' = NoReturn
    /\ UNCHANGED << pc, fetchingInfraConfigs, infraConfigsError, infraConfigs,
                    fetchingAllowedAuthProviders, allowedAuthProvidersError,
                    allowedAuthProviders, currentConfigs, workingConfigs,
                    updatedConfigs, calls, toasts, log >>

\* the caller flips a section's enabled flag of the Config it passed in
ToggleUpdatedSection ==
    /\ updatedConfigs # Undefined
    /\ \E s \in FieldSections \cup { "dataSharingConfigs" } :
          updatedConfigs' = SetEnabled(updatedConfigs, s,
                                       ~EnabledOf(updatedConfigs, s))
    /\ returned' = NoReturn
    /\ UNCHANGED << pc, fetchingInfraConfigs, infraConfigsError, infraConfigs,
                    fetchingAllowedAuthProviders, allowedAuthProvidersError,
                    allowedAuthProviders, objects, currentConfigs,
                    workingConfigs, calls, toasts, log, nEdits >>

\* the caller sets a field of the Config it passed in
EditUpdatedField ==
    /\ updatedConfigs # Undefined
    /\ nEdits < MaxEdits
    /\ \E s \in FieldSections :
          \E f \in DOMAIN Section(updatedConfigs, s).fields :
             \E v \in EditValues :
                /\ Section(updatedConfigs, s).fields[f] # v
                /\ updatedConfigs' = SetField(updatedConfigs, s, f, v)
    /\ nEdits' = nEdits + 1
    /\ returned' = NoReturn
    /\ UNCHANGED << pc, fetchingInfraConfigs, infraConfigsError, infraConfigs,
                    fetchingAllowedAuthProviders, allowedAuthProvidersError,
                    allowedAuthProviders, objects, currentConfigs,
                    workingConfigs, calls, toasts, log >>

-----------------------------------------------------------------------------
(* Reads of the computed values, and the validator.                        *)

Returns(op, value) ==
    /\ returned' = [ op |-> op, value |-> value ]
    /\ UNCHANGED << pc, fetchingInfraConfigs, infraConfigsError, infraConfigs,
                    fetchingAllowedAuthProviders, allowedAuthProvidersError,
                    allowedAuthProviders, objects, currentConfigs,
                    workingConfigs, updatedConfigs, calls, toasts, log,
                    nEdits >>

\* updatedInfraConfigs.value
ReadUpdatedInfraConfigs ==
    Returns("updatedInfraConfigs", UpdatedInfraConfigs(updatedConfigs))

\* updatedAllowedAuthProviders.value
ReadUpdatedAllowedAuthProviders ==
    Returns("updatedAllowedAuthProviders",
            UpdatedAllowedAuthProviders(updatedConfigs))

\* AreAnyConfigFieldsEmpty(config), on the caller's Config
CallAreAnyConfigFieldsEmpty ==
    /\ updatedConfigs # Undefined
    /\ Returns("AreAnyConfigFieldsEmpty",
               AreAnyConfigFieldsEmpty(updatedConfigs))

-----------------------------------------------------------------------------
(* The mutation dispatcher and its four call sites.                        *)

\* t(errorMessage): the localized message of a key
T(key) == [ t |-> key ]

\* executeMutation up to its await: mutation.executeMutation(variables) is
\* called, once, on the handle the call site was given
ExecuteMutation(op, variables, errorMessage) ==
    /\ pc \notin { "build", "clone" }
    /\ nEdits + Len(calls) < MaxEvents
    /\ calls' = Append(calls,
                       [ op |-> op, variables |-> variables,
                         errorMessage |-> errorMessage, executed |-> 1,
                         result |-> "pending", value |-> "pending" ])
    /\ returned' = NoReturn
    /\ UNCHANGED << pc, fetchingInfraConfigs, infraConfigsError, infraConfigs,
                    fetchingAllowedAuthProviders, allowedAuthProvidersError,
                    allowedAuthProviders, objects, currentConfigs,
                    workingConfigs, updatedConfigs, toasts, log, nEdits >>

\* variant: an error of the result is swallowed
ExecuteMutationResumed_Swallowed ==
    /\ pc \notin { "build", "clone" }
    /\ \E i \in 1..Len(calls) :
          /\ calls[i].result = "pending"
          /\ \E error \in BOOLEAN :
                calls' = [ calls EXCEPT
                             ![i].result = IF error THEN "error" ELSE "ok",
                             ![i].value = "true" ]
    /\ returned' = NoReturn
    /\ UNCHANGED << pc, fetchingInfraConfigs, infraConfigsError, infraConfigs,
                    fetchingAllowedAuthProviders, allowedAuthProvidersError,
                    allowedAuthProviders, objects, currentConfigs,
                    workingConfigs, updatedConfigs, toasts, log, nEdits >>

\* executeMutation after its await: the result has an error or not
ExecuteMutationResumed ==
    /\ pc \notin { "build", "clone" }
    /\ \E i \in 1..Len(calls) :
          /\ calls[i].result = "pending"
          /\ \E error \in BOOLEAN :
                IF error
                THEN /\ toasts' = Append(toasts, T(calls[i].errorMessage))
                     /\ calls' = [ calls EXCEPT ![i].result = "error",
                                                ![i].value = "false" ]
                ELSE /\ toasts' = toasts
                     /\ calls' = [ calls EXCEPT ![i].result = "ok",
                                                ![i].value = "true" ]
    /\ returned' = NoReturn
    /\ UNCHANGED << pc, fetchingInfraConfigs, infraConfigsError, infraConfigs,
                    fetchingAllowedAuthProviders, allowedAuthProvidersError,
                    allowedAuthProviders, objects, currentConfigs,
                    workingConfigs, updatedConfigs, log, nEdits >>

UpdateAuthProvider ==
    ExecuteMutation("updateAuthProvider",
                    [ providerInfo |-> UpdatedAllowedAuthProviders(updatedConfigs) ],
                    "configs.auth_providers.update_failure")

UpdateInfraConfigs ==
    ExecuteMutation("updateInfraConfigs",
                    [ infraConfigs |-> UpdatedInfraConfigs(updatedConfigs) ],
                    "configs.mail_configs.update_failure")

ResetInfraConfigs ==
    ExecuteMutation("resetInfraConfigs", Undefined, "configs.reset.failure")

UpdateDataSharingConfigs ==
    ExecuteMutation("updateDataSharingConfigs",
                    [ status |->
                        IF updatedConfigs # Undefined
                           /\ updatedConfigs.dataSharingConfigs.enabled
                        THEN "ENABLE" ELSE "DISABLE" ],
                    "configs.data_sharing.update_failure")

-----------------------------------------------------------------------------
(* An editing session: mount, edits of the working copy, mutations.        *)

\* the Config a saving component passes in
SessionConfig == BuildConfig(ServerList, << "GOOGLE", "EMAIL" >>)

Init == InitWith({ Undefined, SessionConfig })

Next ==
    \/ OnMounted
    \/ InfraConfigsFetched(SessionLists)
    \/ AllowedAuthProvidersFetched(SessionProviderLists)
    \/ AssignCurrentConfigs
    \/ AssignWorkingConfigs
    \/ ToggleWorkingSection
    \/ EditWorkingField({ S_padded })
    \/ UpdateAuthProvider
    \/ UpdateInfraConfigs
    \/ ResetInfraConfigs
    \/ UpdateDataSharingConfigs
    \/ ExecuteMutationResumed

Spec == Init /\ [][Next]_vars

-----------------------------------------------------------------------------
(* The reverse transformers and the validator on the caller's Config.      *)

\* every combination of enabled flags over a Config whose fields all differ
TransformConfigs ==
    { Undefined, BuildConfig(ServerList, << >>) }

InitTransform == InitWith(TransformConfigs)

NextTransform ==
    \/ ToggleUpdatedSection
    \/ EditUpdatedField
    \/ ReadUpdatedInfraConfigs
    \/ ReadUpdatedAllowedAuthProviders
    \/ CallAreAnyConfigFieldsEmpty

SpecTransform == InitTransform /\ [][NextTransform]_vars

-----------------------------------------------------------------------------
(* The vocabulary of the properties: the key of every field, the order of  *)
(* the keys in a mutation payload.                                         *)

FieldKeys ==
    { << "google", "client_id", "GOOGLE_CLIENT_ID" >>,
      << "google", "client_secret", "GOOGLE_CLIENT_SECRET" >>,
      << "google", "callback_url", "GOOGLE_CALLBACK_URL" >>,
      << "google", "scope", "GOOGLE_SCOPE" >>,
      << "microsoft", "client_id", "MICROSOFT_CLIENT_ID" >>,
      << "microsoft", "client_secret", "MICROSOFT_CLIENT_SECRET" >>,
      << "microsoft", "callback_url", "MICROSOFT_CALLBACK_URL" >>,
      << "microsoft", "scope", "MICROSOFT_SCOPE" >>,
      << "microsoft", "tenant", "MICROSOFT_TENANT" >>,
      << "github", "client_id", "GITHUB_CLIENT_ID" >>,
      << "github", "client_secret", "GITHUB_CLIENT_SECRET" >>,
      << "github", "callback_url", "GITHUB_CALLBACK_URL" >>,
      << "github", "scope", "GITHUB_SCOPE" >>,
      << "oidc", "client_id", "OIDC_CLIENT_ID" >>,
      << "oidc", "client_secret", "OIDC_CLIENT_SECRET" >>,
      << "oidc", "callback_url", "OIDC_CALLBACK_URL" >>,
      << "oidc", "scope", "OIDC_SCOPE" >>,
      << "oidc", "issuer", "OIDC_ISSUER" >>,
      << "oidc", "auth_url", "OIDC_AUTH_URL" >>,
      << "oidc", "token_url", "OIDC_TOKEN_URL" >>,
      << "oidc", "userinfo_url", "OIDC_USERINFO_URL" >>,
      << "mailConfigs", "mailer_smtp_url", "MAILER_SMTP_URL" >>,
      << "mailConfigs", "mailer_from_address", "MAILER_ADDRESS_FROM" >> }

OutputKeys ==
    << "GOOGLE_CLIENT_ID", "GOOGLE_CLIENT_SECRET", "GOOGLE_CALLBACK_URL",
       "GOOGLE_SCOPE",
       "MICROSOFT_CLIENT_ID", "MICROSOFT_CLIENT_SECRET",
       "MICROSOFT_CALLBACK_URL", "MICROSOFT_SCOPE", "MICROSOFT_TENANT",
       "GITHUB_CLIENT_ID", "GITHUB_CLIENT_SECRET", "GITHUB_CALLBACK_URL",
       "GITHUB_SCOPE",
       "OIDC_CLIENT_ID", "OIDC_CLIENT_SECRET", "OIDC_CALLBACK_URL",
       "OIDC_SCOPE", "OIDC_ISSUER", "OIDC_AUTH_URL", "OIDC_TOKEN_URL",
       "OIDC_USERINFO_URL",
       "MAILER_SMTP_URL", "MAILER_ADDRESS_FROM" >>

PositionOf(k) == CHOOSE i \in 1..Len(OutputKeys) : OutputKeys[i] = k

HasName(list, k) == \E i \in 1..Len(list) : list[i].name = k

\* the value of the first entry of list named k, '' when there is none
FirstValueOr(list, k) ==
    IF HasName(list, k)
    THEN list[CHOOSE i \in 1..Len(list) :
                 /\ list[i].name = k
                 /\ \A j \in 1..(i - 1) : list[j].name # k].value
    ELSE EmptyStr

UniqueNames(list) ==
    \A i, j \in 1..Len(list) : list[i].name = list[j].name => i = j

\* the value read back from updatedInfraConfigs.value, when that was the last read
InfraRead == returned.op = "updatedInfraConfigs"

-----------------------------------------------------------------------------
\* C1: for every Config passed in, an enabled section (google, microsoft,
\* github, oidc, mail) has an entry in updatedInfraConfigs for every one of
\* its fields, under the field's key and with the stored value; a disabled
\* section has no entry under any of its keys, whatever its fields hold.
C1_EnabledSectionsOnly ==
    (InfraRead /\ updatedConfigs # Undefined) =>
        \A t \in FieldKeys :
            LET section == Section(updatedConfigs, t[1])
                out == returned.value
            IN  IF section.enabled
                THEN \E i \in 1..Len(out) :
                        out[i] = [ name |-> t[3], value |-> section.fields[t[2]] ]
                ELSE \A i \in 1..Len(out) : out[i].name # t[3]

\* google is enabled and carries an edited field, microsoft is disabled with
\* its fields filled, and updatedInfraConfigs has been read
C1_Witness ==
    /\ InfraRead
    /\ updatedConfigs # Undefined
    /\ updatedConfigs.providers.google.enabled
    /\ updatedConfigs.providers.google.fields.scope = S_padded
    /\ ~updatedConfigs.providers.microsoft.enabled
    /\ updatedConfigs.providers.microsoft.fields.tenant # EmptyStr

\* C2: the entries of updatedInfraConfigs come in the order google,
\* microsoft, github, oidc, mail (and in the fixed field order within a
\* section), no key occurs twice, the seed entry named '' is never among
\* them, and with every section disabled, or no Config passed, the list is
\* empty.
C2_FixedOrderNoSeed ==
    InfraRead =>
        LET out == returned.value
        IN  /\ \A i \in 1..Len(out) :
                  \E p \in 1..Len(OutputKeys) : OutputKeys[p] = out[i].name
            /\ \A i, j \in 1..Len(out) :
                  i < j => PositionOf(out[i].name) < PositionOf(out[j].name)
            /\ ( \/ updatedConfigs = Undefined
                 \/ \A s \in FieldSections : ~Section(updatedConfigs, s).enabled )
               => out = << >>

\* all five sections are enabled and updatedInfraConfigs has been read
C2_Witness ==
    /\ InfraRead
    /\ updatedConfigs # Undefined
    /\ \A s \in FieldSections : Section(updatedConfigs, s).enabled
    /\ Len(returned.value) = Len(OutputKeys)

\* C3: updatedAllowedAuthProviders is always the four directives GOOGLE,
\* MICROSOFT, GITHUB, EMAIL in that order, each ENABLE exactly when its
\* section (google, microsoft, github, mailConfigs) is enabled; there is no
\* OIDC directive and the list is the same whatever providers.oidc.enabled.
C3_FourDirectives ==
    returned.op = "updatedAllowedAuthProviders" =>
        LET out == returned.value
            sectionOf == << "google", "microsoft", "github", "mailConfigs" >>
        IN  /\ Len(out) = 4
            /\ [ i \in 1..4 |-> out[i].provider ]
                 = << "GOOGLE", "MICROSOFT", "GITHUB", "EMAIL" >>
            /\ updatedConfigs # Undefined =>
                 /\ \A i \in 1..4 :
                       /\ Section(updatedConfigs, sectionOf[i]).enabled
                            => out[i].status = "ENABLE"
                       /\ ~Section(updatedConfigs, sectionOf[i]).enabled
                            => out[i].status = "DISABLE"
                 /\ UpdatedAllowedAuthProviders(
                        SetEnabled(updatedConfigs, "oidc",
                                   ~updatedConfigs.providers.oidc.enabled)) = out

\* google and oidc are enabled, github is not, a field has been edited, and
\* updatedAllowedAuthProviders has been read
C3_Witness ==
    /\ returned.op = "updatedAllowedAuthProviders"
    /\ updatedConfigs # Undefined
    /\ updatedConfigs.providers.google.enabled
    /\ updatedConfigs.providers.oidc.enabled
    /\ ~updatedConfigs.providers.github.enabled
    /\ nEdits > 0

\* a value whose characters are all white space: its trimmed value is ''
AllWhiteSpace(v) == \A i \in 1..Len(v) : v[i] \in { " ", "\t", "\n" }

\* C7: AreAnyConfigFieldsEmpty(c) is true exactly when one of github,
\* google, microsoft, mailConfigs is enabled and has a field whose trimmed
\* value is ''; a disabled section, the oidc section and the data-sharing
\* section never make it true.
C7_EmptyFieldOfEnabledSection ==
    returned.op = "AreAnyConfigFieldsEmpty" =>
        ( returned.value
          <=> \E s \in { "github", "google", "microsoft", "mailConfigs" } :
                 /\ Section(updatedConfigs, s).enabled
                 /\ \E f \in DOMAIN Section(updatedConfigs, s).fields :
                       AllWhiteSpace(Section(updatedConfigs, s).fields[f]) )

\* github is enabled with a field of white space only, every other field is
\* filled, and the validator returned true
C7_Witness ==
    /\ returned.op = "AreAnyConfigFieldsEmpty"
    /\ returned.value
    /\ updatedConfigs.providers.github.enabled
    /\ updatedConfigs.providers.github.fields.client_id = S_blank
    /\ ~updatedConfigs.providers.google.enabled

-----------------------------------------------------------------------------
\* the Config built on mount, once currentConfigs is assigned
Built == objects[currentConfigs]

\* the flat list of the example: GOOGLE_CLIENT_ID = 'abc', analytics allowed
ExampleList ==
    << [ name |-> "GOOGLE_CLIENT_ID", value |-> S_abc ],
       [ name |-> "ALLOW_ANALYTICS_COLLECTION", value |-> S_true ] >>

\* C4: whatever the two reads returned (a list lacking any keys, the empty
\* list), the Config built on mount is complete: every field is the value of
\* the first entry under its key, or '' when there is none; google, github,
\* microsoft, oidc are enabled exactly when the provider list has GOOGLE,
\* GITHUB, MICROSOFT, OIDC, and mailConfigs exactly when it has EMAIL.  On
\* the example list with providers ["GOOGLE"]: google is enabled with
\* client_id 'abc', every other field is '', and each of github, microsoft,
\* oidc and mailConfigs is disabled (data sharing is enabled there).
C4_BuiltConfig ==
    currentConfigs # NullRef =>
        /\ DOMAIN Built = { "providers", "mailConfigs", "dataSharingConfigs" }
        /\ DOMAIN Built.providers = { "google", "github", "microsoft", "oidc" }
        /\ \A s \in FieldSections :
              DOMAIN Section(Built, s).fields
                = { t[2] : t \in { u \in FieldKeys : u[1] = s } }
        /\ \A t \in FieldKeys :
              Section(Built, t[1]).fields[t[2]] = FirstValueOr(infraConfigs, t[3])
        /\ Built.providers.google.enabled
             <=> \E i \in 1..Len(allowedAuthProviders) : allowedAuthProviders[i] = "GOOGLE"
        /\ Built.providers.github.enabled
             <=> \E i \in 1..Len(allowedAuthProviders) : allowedAuthProviders[i] = "GITHUB"
        /\ Built.providers.microsoft.enabled
             <=> \E i \in 1..Len(allowedAuthProviders) : allowedAuthProviders[i] = "MICROSOFT"
        /\ Built.providers.oidc.enabled
             <=> \E i \in 1..Len(allowedAuthProviders) : allowedAuthProviders[i] = "OIDC"
        /\ Built.mailConfigs.enabled
             <=> \E i \in 1..Len(allowedAuthProviders) : allowedAuthProviders[i] = "EMAIL"
        /\ (infraConfigs = ExampleList /\ allowedAuthProviders = << "GOOGLE" >>) =>
              /\ Built.providers.google.enabled
              /\ Built.providers.google.fields.client_id = S_abc
              /\ \A t \in FieldKeys \ { << "google", "client_id", "GOOGLE_CLIENT_ID" >> } :
                    Section(Built, t[1]).fields[t[2]] = EmptyStr
              /\ \A s \in FieldSections \ { "google" } : ~Section(Built, s).enabled
              /\ Built.dataSharingConfigs.enabled

\* the Config has been built from the example list and providers ["GOOGLE"]
C4_Witness ==
    /\ currentConfigs # NullRef
    /\ infraConfigs = ExampleList
    /\ allowedAuthProviders = << "GOOGLE" >>
    /\ Built.providers.google.fields.client_id = S_abc

\* C5: in the Config built on mount, dataSharingConfigs.enabled is true
\* exactly when the fetched list has an entry ALLOW_ANALYTICS_COLLECTION
\* whose value is the string 'true'; 'TRUE', 'True', '1' or no entry give
\* false.
C5_AnalyticsExactlyTrue ==
    currentConfigs # NullRef =>
        /\ Built.dataSharingConfigs.enabled
             <=> \E i \in 1..Len(infraConfigs) :
                    infraConfigs[i] = [ name |-> "ALLOW_ANALYTICS_COLLECTION",
                                        value |-> << "t", "r", "u", "e" >> ]
        /\ ( \A i \in 1..Len(infraConfigs) :
                infraConfigs[i].name = "ALLOW_ANALYTICS_COLLECTION"
                  => infraConfigs[i].value \in { S_TRUE, S_True, S_1 } )
             => ~Built.dataSharingConfigs.enabled

\* the Config has been built from a list whose analytics entries are 'TRUE'
\* and '1', and data sharing is disabled
C5_Witness ==
    /\ currentConfigs # NullRef
    /\ infraConfigs = << [ name |-> "ALLOW_ANALYTICS_COLLECTION", value |-> S_TRUE ],
                         [ name |-> "ALLOW_ANALYTICS_COLLECTION", value |-> S_1 ] >>
    /\ ~Built.dataSharingConfigs.enabled

\* the working copy with all five sections enabled
AllEnabled(config) ==
    SetEnabled(SetEnabled(SetEnabled(SetEnabled(SetEnabled(config,
        "google", TRUE), "microsoft", TRUE), "github", TRUE), "oidc", TRUE),
        "mailConfigs", TRUE)

\* build, enable every section, transform back
RoundTrip == UpdatedInfraConfigs(AllEnabled(objects[workingConfigs]))

\* the provider and mail entries of a list, arranged in the payload's order
RelevantInOrder(list) ==
    LET present == SelectSeq(OutputKeys, LAMBDA k : HasName(list, k))
    IN  [ j \in 1..Len(present) |->
            [ name |-> present[j], value |-> FirstValueOr(list, present[j]) ] ]

\* C6 as stated: for every fetched list with unique names, build then
\* reverse-transform with all sections enabled gives exactly the list's
\* provider and mail entries, in the fixed order.
C6_RoundTripIsInputSubset ==
    (pc = "mounted" /\ UniqueNames(infraConfigs)) =>
        RoundTrip = RelevantInOrder(infraConfigs)

\* C6, amended: for every fetched list with unique names, build then
\* reverse-transform with all sections enabled gives all 23 provider and
\* mail keys in the fixed order, each with the list's value for it, or ''
\* when the list has no entry for it; so the result is exactly the list's
\* provider and mail entries when the list has all 23 of them.
C6_RoundTripWithDefaults ==
    (pc = "mounted" /\ UniqueNames(infraConfigs)) =>
        /\ RoundTrip =
             [ j \in 1..Len(OutputKeys) |->
                 [ name |-> OutputKeys[j],
                   value |-> FirstValueOr(infraConfigs, OutputKeys[j]) ] ]
        /\ (\A j \in 1..Len(OutputKeys) : HasName(infraConfigs, OutputKeys[j]))
             => RoundTrip = RelevantInOrder(infraConfigs)

\* mounted on a complete response that came in another order than the payload's
C6_Witness ==
    /\ pc = "mounted"
    /\ infraConfigs = Reverse(ServerList)
    /\ Len(RoundTrip) = Len(OutputKeys)

-----------------------------------------------------------------------------
\* the message key of each mutation operation
MessageKeyOf(op) ==
    CASE op = "updateAuthProvider" -> "configs.auth_providers.update_failure"
      [] op = "updateInfraConfigs" -> "configs.mail_configs.update_failure"
      [] op = "resetInfraConfigs" -> "configs.reset.failure"
      [] op = "updateDataSharingConfigs" -> "configs.data_sharing.update_failure"

MutationOps == { "updateAuthProvider", "updateInfraConfigs",
                 "resetInfraConfigs", "updateDataSharingConfigs" }

\* C8: each call of updateAuthProvider, updateInfraConfigs,
\* resetInfraConfigs, updateDataSharingConfigs executes its mutation once;
\* a result with an error gives one error toast with the call site's key
\* and the value false, a result without error gives no toast and true.
C8_OneToastPerFailure ==
    /\ \A i \in 1..Len(calls) :
          /\ calls[i].op \in MutationOps
          /\ calls[i].executed = 1
          /\ calls[i].result = "pending" => calls[i].value = "pending"
          /\ calls[i].result = "error" => calls[i].value = "false"
          /\ calls[i].result = "ok" => calls[i].value = "true"
    /\ \A op \in MutationOps :
          Cardinality({ j \in 1..Len(toasts) : toasts[j] = T(MessageKeyOf(op)) })
            = Cardinality({ i \in 1..Len(calls) :
                              calls[i].op = op /\ calls[i].result = "error" })
    /\ Len(toasts)
         = Cardinality({ i \in 1..Len(calls) : calls[i].result = "error" })

\* updateInfraConfigs failed and updateAuthProvider succeeded: one toast
C8_Witness ==
    /\ \E i \in 1..Len(calls) :
          calls[i].op = "updateInfraConfigs" /\ calls[i].value = "false"
    /\ \E i \in 1..Len(calls) :
          calls[i].op = "updateAuthProvider" /\ calls[i].value = "true"
    /\ toasts = << T("configs.mail_configs.update_failure") >>

\* C9: when the mount handler completes the working copy equals
\* currentConfigs; from then on, through edits of the working copy and
\* mutation calls that succeed or fail, currentConfigs stays the Config
\* built on mount, and a mutation call, or its completion, leaves the
\* working copy as it was.
C9_WorkingCopyIsolation ==
    /\ [](pc = "mounted" =>
            objects[currentConfigs] = BuildConfig(infraConfigs, allowedAuthProviders))
    /\ [][ /\ (pc # "mounted" /\ pc' = "mounted") =>
                 objects'[workingConfigs'] = objects'[currentConfigs']
           /\ pc = "mounted" =>
                 /\ pc' = "mounted"
                 /\ currentConfigs' = currentConfigs
                 /\ objects'[currentConfigs'] = objects[currentConfigs]
           /\ (calls' # calls /\ workingConfigs # NullRef) =>
                 /\ workingConfigs' = workingConfigs
                 /\ objects'[workingConfigs'] = objects[workingConfigs]
         ]_vars

\* the working copy has been edited away from currentConfigs and a mutation
\* call has failed
C9_Witness ==
    /\ pc = "mounted"
    /\ objects[workingConfigs] # objects[currentConfigs]
    /\ \E i \in 1..Len(calls) : calls[i].result = "error"

\* the events of a mount, in order
MountOrder ==
    << "fetchInfraConfigs:start", "fetchInfraConfigs:done",
       "fetchAllowedAuthProviders:start", "fetchAllowedAuthProviders:done",
       "currentConfigs:assigned", "workingConfigs:assigned" >>

\* C10: on mount the allowed-auth-providers read starts only after the
\* infra-config read has completed; currentConfigs and workingConfigs are
\* undefined until both reads have completed; currentConfigs is assigned
\* before workingConfigs, each once.
C10_SequentialMount ==
    /\ Len(log) <= Len(MountOrder)
    /\ log = SubSeq(MountOrder, 1, Len(log))
    /\ fetchingAllowedAuthProviders =>
          /\ ~fetchingInfraConfigs
          /\ Len(log) >= 2 /\ log[2] = "fetchInfraConfigs:done"
    /\ (fetchingInfraConfigs \/ fetchingAllowedAuthProviders \/ Len(log) < 4) =>
          (currentConfigs = NullRef /\ workingConfigs = NullRef)
    /\ workingConfigs # NullRef => currentConfigs # NullRef
    /\ currentConfigs # NullRef <=> Len(log) >= 5
    /\ workingConfigs # NullRef <=> Len(log) >= 6
    /\ pc = "mounted" => log = MountOrder

\* the mount has completed on a complete response
C10_Witness ==
    /\ pc = "mounted"
    /\ log = MountOrder
    /\ infraConfigs = ServerList
    /\ workingConfigs # NullRef

====
